---- MODULE Spec2Model ----
(***************************************************************************)
(* Model of the Namster backend (src/server.js): the in-memory session     *)
(* store, the upload / preview / generate / download request handlers and  *)
(* the files they create under uploads/ and work/.                         *)
(*                                                                         *)
(* Granularity: a handler runs atomically from one `await` (or stream      *)
(* callback) to the next, as on Node's single-threaded event loop; the     *)
(* handlers of different requests interleave at those points.  A file      *)
(* system call takes effect at the step that resumes from it.              *)
(*                                                                         *)
(* Strings whose characters matter (names, file names) are sequences of    *)
(* one-character strings.  The cleanup registry of a session is kept as    *)
(* the set of its paths: cleanupSession only iterates it and removal is    *)
(* idempotent, so repeated pushes of one path add nothing.  File system    *)
(* calls are taken to succeed when their paths allow it; faults of the     *)
(* renderer and of the archiver are separate failure steps.                *)
(*                                                                         *)
(* Four specifications share the variables: Spec (the handlers of all      *)
(* routes interleaved), SpecLive (Spec with the event loop's fairness),    *)
(* SpecBatch (one generate call on lists of up to MaxTotal names) and      *)
(* SpecExtract (one upload, list files of every kind and content).         *)
(***************************************************************************)
EXTENDS Integers, Sequences, FiniteSets, TLC

\* ---------------------------------------------------------------- bounds
\* Session ids ever allocated in one behaviour (crypto.randomUUID is fresh).
MaxSessions == 1
\* Request handlers in flight at the same time.
MaxInFlight == 2
\* Longest name list an upload yields in the interleaved specification.
MaxNames == 2
\* Preview, generate and download handlers started in one behaviour.
MaxCalls == 3
\* Longest name list of the single-call specification SpecBatch.
MaxTotal == 52
\* Most entries of a list file in the upload specification SpecExtract.
MaxTokens == 3

\* ------------------------------------------------------- program constants
\* const maxBatch = 50
maxBatch == 50
\* padStart(3, '0')
padWidth == 3

Max(a, b) == IF a >= b THEN a ELSE b
Min(a, b) == IF a <= b THEN a ELSE b

\* ------------------------------------------------------------ JS numbers
\* A JSON body value as far as Number() tells values apart:
\*   undef  - the field is absent            Number -> NaN
\*   null   - JSON null                      Number -> 0
\*   num    - a JSON number n                Number -> n
\*   numstr - a string spelling the number n Number -> n
\*   text   - any other string ("abc")       Number -> NaN
JsUndef == [t |-> "undef", n |-> 0]
JsNull == [t |-> "null", n |-> 0]
JsText == [t |-> "text", n |-> 0]
JsNum(k) == [t |-> "num", n |-> k]
JsNumStr(k) == [t |-> "numstr", n |-> k]

\* Number(v): nan is TRUE for NaN, else n is the value.
ToNumber(v) ==
  CASE v.t = "undef" -> [nan |-> TRUE, n |-> 0]
    [] v.t = "text" -> [nan |-> TRUE, n |-> 0]
    [] v.t = "null" -> [nan |-> FALSE, n |-> 0]
    [] OTHER -> [nan |-> FALSE, n |-> v.n]

\* Number.isFinite(Number(v))
IsFiniteNumber(v) == ~ToNumber(v).nan

\* A value that may be undefined: def = FALSE is undefined.
Undefined == [def |-> FALSE, n |-> 0]
Defined(k) == [def |-> TRUE, n |-> k]
\* JS truthiness of a number-or-undefined
Truthy(u) == u.def /\ u.n # 0

\* ------------------------------------------------------------ batch window
\* const start = Math.max(0, Number.isFinite(Number(offset)) ? Number(offset) : 0)
Start(offset) == Max(0, IF IsFiniteNumber(offset) THEN ToNumber(offset).n ELSE 0)

\* const requested = Number.isFinite(Number(limit)) ? Number(limit) : undefined
Requested(limit) ==
  IF IsFiniteNumber(limit) THEN Defined(ToNumber(limit).n) ELSE Undefined

\* BatchSize without the cap: Math.max(1, requested)
BatchSizeNoCap(requested) ==
  IF Truthy(requested) THEN Defined(Max(1, requested.n)) ELSE Undefined

\* const batchSize = requested ? Math.max(1, Math.min(maxBatch, requested)) : undefined
BatchSize(requested) ==
  IF Truthy(requested) THEN Defined(Max(1, Min(maxBatch, requested.n))) ELSE Undefined

\* const endExclusive = batchSize ? Math.min(total, start + batchSize) : total
EndExclusive(batchSize, start, total) ==
  IF Truthy(batchSize) THEN Min(total, start + batchSize.n) ELSE total

\* const ext = (format === 'jpg' || format === 'jpeg') ? 'jpg' : 'png'
Ext(format) == IF format \in {"jpg", "jpeg"} THEN "jpg" ELSE "png"

\* --------------------------------------------------------------- file names
Digits == <<"0", "1", "2", "3", "4", "5", "6", "7", "8", "9">>

\* String(n) for a non-negative integer n
RECURSIVE DecStr(_)
DecStr(n) ==
  IF n < 10 THEN <<Digits[n + 1]>>
  ELSE Append(DecStr(n \div 10), Digits[(n % 10) + 1])

\* s.padStart(len, ch)
PadStart(s, len, ch) ==
  IF Len(s) >= len THEN s ELSE [i \in 1..(len - Len(s)) |-> ch] \o s

\* The characters the class [a-z0-9_-] with flag i accepts.
SafeChars ==
  {"a", "b", "c", "d", "e", "f", "g", "h", "i", "j", "k", "l", "m",
   "n", "o", "p", "q", "r", "s", "t", "u", "v", "w", "x", "y", "z",
   "A", "B", "C", "D", "E", "F", "G", "H", "I", "J", "K", "L", "M",
   "N", "O", "P", "Q", "R", "S", "T", "U", "V", "W", "X", "Y", "Z",
   "0", "1", "2", "3", "4", "5", "6", "7", "8", "9", "_", "-"}

\* s with its longest prefix of characters outside SafeChars removed
RECURSIVE SkipUnsafe(_)
SkipUnsafe(s) ==
  IF s = <<>> \/ Head(s) \in SafeChars THEN s ELSE SkipUnsafe(Tail(s))

\* name.replace(/[^a-z0-9_-]+/gi, '_'): each maximal run of unsafe
\* characters becomes one underscore.
RECURSIVE Sanitize(_)
Sanitize(s) ==
  IF s = <<>> THEN <<>>
  ELSE IF Head(s) \in SafeChars THEN <<Head(s)>> \o Sanitize(Tail(s))
  ELSE <<"_">> \o Sanitize(SkipUnsafe(Tail(s)))

ExtChars(ext) == IF ext = "jpg" THEN <<"j", "p", "g">> ELSE <<"p", "n", "g">>

\* Filename numbering from 0: String(idx) in place of String(idx + 1)
FilenameZeroBased(idx, name, ext) ==
  PadStart(DecStr(idx), padWidth, "0") \o <<"-">> \o Sanitize(name)
    \o <<".">> \o ExtChars(ext)

\* Filename without the index prefix
FilenameNoIndex(idx, name, ext) == Sanitize(name) \o <<".">> \o ExtChars(ext)

\* `${String(idx + 1).padStart(3, '0')}-${name.replace(...)}.${ext}`
\* idx is the 0-based position in the whole name list.
Filename(idx, name, ext) ==
  PadStart(DecStr(idx + 1), padWidth, "0") \o <<"-">> \o Sanitize(name)
    \o <<".">> \o ExtChars(ext)

\* outPath.replace(/\.jpg$/, '.png') on the file name
TmpPngName(f) ==
  IF Len(f) >= 4 /\ SubSeq(f, Len(f) - 3, Len(f)) = <<".", "j", "p", "g">>
  THEN SubSeq(f, 1, Len(f) - 4) \o <<".", "p", "n", "g">>
  ELSE f

\* ------------------------------------------------------ parseNamesFromText
\* The characters String.prototype.trim and the class \s take for white
\* space, among those the texts here are written with.
WhiteSpace == {" ", "\t", "\r", "\n"}

UpperCase ==
  <<"A", "B", "C", "D", "E", "F", "G", "H", "I", "J", "K", "L", "M",
    "N", "O", "P", "Q", "R", "S", "T", "U", "V", "W", "X", "Y", "Z">>
LowerCase ==
  <<"a", "b", "c", "d", "e", "f", "g", "h", "i", "j", "k", "l", "m",
    "n", "o", "p", "q", "r", "s", "t", "u", "v", "w", "x", "y", "z">>

\* c.toLowerCase() for one character
LowerChar(c) ==
  IF \E i \in 1..26 : UpperCase[i] = c
  THEN LowerCase[CHOOSE i \in 1..26 : UpperCase[i] = c]
  ELSE c

\* t.toLowerCase()
ToLowerCase(t) == [i \in 1..Len(t) |-> LowerChar(t[i])]

\* text.split(/\r?\n|;|,/): the pieces between the separators, `cur` being
\* the piece read so far.  A "\r" is part of a separator only right before
\* a "\n".
RECURSIVE SplitText(_, _)
SplitText(s, cur) ==
  IF s = <<>> THEN <<cur>>
  ELSE IF Len(s) >= 2 /\ s[1] = "\r" /\ s[2] = "\n"
       THEN <<cur>> \o SplitText(Tail(Tail(s)), <<>>)
  ELSE IF Head(s) \in {"\n", ";", ","}
       THEN <<cur>> \o SplitText(Tail(s), <<>>)
  ELSE SplitText(Tail(s), Append(cur, Head(s)))

RECURSIVE TrimStart(_)
TrimStart(t) ==
  IF t = <<>> \/ Head(t) \notin WhiteSpace THEN t ELSE TrimStart(Tail(t))

RECURSIVE TrimEnd(_)
TrimEnd(t) ==
  IF t = <<>> \/ t[Len(t)] \notin WhiteSpace THEN t
  ELSE TrimEnd(SubSeq(t, 1, Len(t) - 1))

\* t.trim()
Trim(t) == TrimEnd(TrimStart(t))

\* t.replace(/\s+/g, '')
StripSpace(t) == SelectSeq(t, LAMBDA c : c \notin WhiteSpace)

\* the header word the cleaning filter drops
Liste == <<"l", "i", "s", "t", "e">>

\* norm === 'liste' with norm = t.toLowerCase().replace(/\s+/g, '')
IsHeader(t) == StripSpace(ToLowerCase(t)) = Liste

\* .map((t) => t.trim()).filter(Boolean)
TrimAll(ts) ==
  SelectSeq([i \in 1..Len(ts) |-> Trim(ts[i])], LAMBDA t : t # <<>>)

\* ParseNamesFromText without the trim of the pieces
ParseNamesUntrimmed(text) ==
  SelectSeq(SelectSeq(SplitText(text, <<>>), LAMBDA t : t # <<>>),
            LAMBDA t : ~IsHeader(t))

\* parseNamesFromText(text)
ParseNamesFromText(text) ==
  SelectSeq(TrimAll(SplitText(text, <<>>)), LAMBDA t : ~IsHeader(t))

\* ----------------------------------------------------- the uploaded list
\* A list file as multer stored it:
\*   ext      - path.extname(filePath).toLowerCase()
\*   readable - the file can be opened and read when the extraction runs
\*   parses   - its bytes are what the format's parser accepts
\*   tokens   - the entries it was written from (the cells of a sheet)
\*   seps     - the separator written after each entry but the last
NoList == [ext |-> "", readable |-> FALSE, parses |-> FALSE,
           tokens |-> <<>>, seps |-> <<>>]

\* the text of the file: its entries joined by its separators
RECURSIVE JoinFrom(_, _, _)
JoinFrom(tokens, seps, i) ==
  IF i > Len(tokens) THEN <<>>
  ELSE IF i = Len(tokens) THEN tokens[i]
  ELSE tokens[i] \o seps[i] \o JoinFrom(tokens, seps, i + 1)

Text(file) == JoinFrom(file.tokens, file.seps, 1)

Returned(names) == [threw |-> FALSE, names |-> names]
Thrown == [threw |-> TRUE, names |-> <<>>]

\* extractNamesFromFile(filePath): what the call returns, or that it threw.
\*   .csv         readFileSync throws on an unreadable file
\*   .xlsx, .xls  xlsx.readFile throws on an unreadable or unparsable file;
\*                the cells are trimmed, the empty ones dropped
\*   .docx        mammoth rejects on an unreadable or unparsable file
\*   .pdf         the read and the parse are inside one try: [] on either
\*   other        the read is inside a try: [] when it fails
ExtractNamesFromFile(file) ==
  CASE file.ext = ".csv" ->
         IF file.readable THEN Returned(ParseNamesFromText(Text(file)))
         ELSE Thrown
    [] file.ext \in {".xlsx", ".xls"} ->
         IF file.readable /\ file.parses THEN Returned(TrimAll(file.tokens))
         ELSE Thrown
    [] file.ext = ".docx" ->
         IF file.readable /\ file.parses
         THEN Returned(ParseNamesFromText(Text(file)))
         ELSE Thrown
    [] file.ext = ".pdf" ->
         IF file.readable /\ file.parses
         THEN Returned(ParseNamesFromText(Text(file)))
         ELSE Returned(<<>>)
    [] OTHER ->
         IF file.readable THEN Returned(ParseNamesFromText(Text(file)))
         ELSE Returned(<<>>)

\* ------------------------------------------------------------------ state
VARIABLES
  sessions,   \* keys of the `sessions` Map
  heap,       \* session objects by id (an object outlives its Map entry
              \* while a handler still holds the reference `s`)
  nextId,     \* number of the next fresh session id
  fs,         \* paths that exist on the file system
  zips,       \* per session: state and entries of work/<sid>/invitations.zip
  reqs,       \* request handlers in flight, by slot
  last,       \* the step taken last and the response it sent, if any
  destroyed,  \* per session: times its Map entry was deleted (history)
  dlDone,     \* sessions for which a download callback has run (history)
  faulted,    \* some handler has ended in its catch block (history)
  calls,      \* preview, generate and download handlers started so far
  prev        \* per session: the last successful generate call (history)

vars == <<sessions, heap, nextId, fs, zips, reqs, last, destroyed, dlDone,
          faulted, calls, prev>>

SIds == 1..MaxSessions
Slots == 1..MaxInFlight

\* An id no session ever has (a request may carry any string).
BogusId == 0

\* ------------------------------------------------------------------ paths
Null == <<>>
ModelPath(u) == <<"uploads", u, "model">>
ListPath(u) == <<"uploads", u, "list">>
\* path.join(workDir, sessionId)
WorkDir(sid) == <<"work", sid>>
\* path.join(workDir, sessionId, 'all')
OutDir(sid) == <<"work", sid, "all">>
OutPath(sid, f) == <<"work", sid, "all", f>>
TestPath(sid) == <<"work", sid, "test.png">>
ZipPath(sid) == <<"work", sid, "invitations.zip">>

\* q is p or lies below directory p
IsUnder(p, q) == Len(q) >= Len(p) /\ SubSeq(q, 1, Len(p)) = p

\* fs.mkdirSync(dir, { recursive: true }) for a directory below work/
MkdirP(files, dir) == files \cup {SubSeq(dir, 1, k) : k \in 2..Len(dir)}

\* fs.rmSync(p, { recursive: true, force: true }) for every p of paths
RmAll(files, paths) ==
  {q \in files : \A p \in paths : ~(p # Null /\ IsUnder(p, q))}

\* names of the files in work/<sid>/all
OutFiles(files, sid) ==
  {q[4] : q \in {p \in files : Len(p) = 4 /\ IsUnder(OutDir(sid), p)}}

\* ------------------------------------------------------------- name lists
\* Names an extraction can yield: two that collide after sanitisation,
\* then equal names.
NamePool ==
  << <<"a", "!">>, <<"a", "_">>, <<"B">>, <<"B">>, <<"a", "!", "?">> >>

NameList(n) == [i \in 1..n |-> NamePool[((i - 1) % Len(NamePool)) + 1]]

\* A readable .csv file that lists the first n names of the pool.
CsvOf(n) == [ext |-> ".csv", readable |-> TRUE, parses |-> TRUE,
             tokens |-> NameList(n), seps |-> [i \in 1..(n - 1) |-> <<",">>]]

\* The list files of the interleaved specification: one for each length
\* of the name list, and one that cannot be read.
SpecLists ==
  {CsvOf(n) : n \in 0..MaxNames} \cup {[CsvOf(0) EXCEPT !.readable = FALSE]}

\* ------------------------------------------------------------ the session
\* newSession(): the object stored under a fresh id
BlankSession == [modelPath |-> Null, listPath |-> Null, names |-> <<>>,
                 cleanup |-> {}]

\* Usable without the test of the names
UsableIgnoringNames(s) == s.modelPath # Null

\* the guard of /api/test and /api/generate:
\*   !s.modelPath || !s.names?.length  -> 400
Usable(s) == s.modelPath # Null /\ Len(s.names) > 0

\* ------------------------------------------------------------ the requests
Idle == [kind |-> "idle", pc |-> "idle", sid |-> 0, offset |-> JsUndef,
         limit |-> JsUndef, format |-> "", start |-> 0, endx |-> 0,
         idx |-> 0, ext |-> "", made |-> {}, entries |-> {}, solo |-> FALSE,
         alone |-> FALSE, list |-> NoList]

NoResp == [op |-> "none", sid |-> 0, status |-> 0, processed |-> 0,
           start |-> 0, total |-> 0, offset |-> JsUndef, limit |-> JsUndef,
           k |-> 0, file |-> <<>>, window |-> {}, entries |-> {},
           repeat |-> FALSE, prevEntries |-> {}, solo |-> FALSE,
           found |-> FALSE, list |-> NoList, names |-> <<>>]

\* a step that answers nothing and finishes no artifact
Step(op, sid) == NoResp
Resp(op, sid, status) == [NoResp EXCEPT !.op = op, !.sid = sid, !.status = status]

NoZip == [state |-> "none", entries |-> {}]
Dirty == [st |-> "dirty", offset |-> JsUndef, limit |-> JsUndef,
          format |-> "", entries |-> {}]

\* slots other than r whose handler works on session sid
Others(r, sid) == {q \in Slots \ {r} : reqs[q].pc # "idle" /\ reqs[q].sid = sid}
OtherGenerates(r, sid) == {q \in Others(r, sid) : reqs[q].kind = "generate"}

\* The handlers in flight once a handler of the given kind has started in
\* slot r on session sid with record rec: the others on that session are
\* no longer alone (nor, for a generate, the only generate) on it.
Started(r, sid, kind, rec) ==
  [q \in Slots |->
     IF q = r THEN rec
     ELSE IF q \in Others(r, sid)
          THEN [reqs[q] EXCEPT !.alone = FALSE,
                               !.solo = IF kind = "generate" THEN FALSE ELSE @]
          ELSE reqs[q]]

\* A new handler takes the lowest free slot (slots are not program state).
Free(r) == reqs[r].pc = "idle" /\ \A q \in Slots : q < r => reqs[q].pc # "idle"

Init ==
  /\ sessions = {}
  /\ heap = [i \in SIds |-> BlankSession]
  /\ nextId = 1
  /\ fs = {}
  /\ zips = [i \in SIds |-> NoZip]
  /\ reqs = [r \in Slots |-> Idle]
  /\ last = NoResp
  /\ destroyed = [i \in SIds |-> 0]
  /\ dlDone = {}
  /\ calls = 0
  /\ faulted = FALSE
  /\ prev = [i \in SIds |-> Dirty]

\* ---------------------------------------------------------- cleanupSession
\* CleanupFiles with rmSync lacking { recursive: true }: a directory that
\* still has content stays
CleanupFilesNotRecursive(files, live, objs, id) ==
  IF id \notin live THEN files
  ELSE files \ {p \in objs[id].cleanup :
                  \A q \in files : IsUnder(p, q) => q = p}

\* CleanupStore without sessions.delete(id)
CleanupStoreKeep(live, id) == live

\* The file system after cleanupSession(id): nothing changes when the id is
\* not in the Map; else every registered path is removed, directories
\* recursively (a falsy or missing path is skipped).
CleanupFiles(files, live, objs, id) ==
  IF id \notin live THEN files ELSE RmAll(files, objs[id].cleanup)

\* The Map after cleanupSession(id): sessions.delete(id)
CleanupStore(live, id) == live \ {id}

\* The process runs: it has not ended on an uncaught exception.  Only a
\* running process takes in a request.
Up == last.op # "crash"

\* -------------------------------------------------------------- /api/upload
\* Inputs: multipart is FALSE for a request multer leaves without req.files;
\* hasModel / hasList tell which of the two files multer has stored.

\* req.files is undefined: req.files['model'] throws after newSession() has
\* run; the catch answers 500.
UploadThrow ==
  /\ Up
  /\ nextId <= MaxSessions
  /\ sessions' = sessions \cup {nextId}
  /\ heap' = [heap EXCEPT ![nextId] = BlankSession]
  /\ nextId' = nextId + 1
  /\ faulted' = TRUE
  /\ last' = Resp("upload.throw", nextId, 500)
  /\ UNCHANGED <<calls, fs, zips, reqs, destroyed, dlDone, prev>>

\* One of the two files is missing: newSession() has run, then 400.
UploadReject(hasModel, hasList) ==
  /\ Up
  /\ nextId <= MaxSessions
  /\ ~(hasModel /\ hasList)
  /\ sessions' = sessions \cup {nextId}
  /\ heap' = [heap EXCEPT ![nextId] = BlankSession]
  /\ nextId' = nextId + 1
  /\ fs' = fs \cup (IF hasModel THEN {ModelPath(nextId)} ELSE {})
              \cup (IF hasList THEN {ListPath(nextId)} ELSE {})
  /\ last' = Resp("upload.reject", nextId, 400)
  /\ UNCHANGED <<faulted, calls, zips, reqs, destroyed, dlDone, prev>>

\* Both files present: the session is created, the paths are stored and
\* registered, and extractNamesFromFile is awaited.
UploadBegin(r, file) ==
  /\ Up
  /\ nextId <= MaxSessions
  /\ Free(r)
  /\ sessions' = sessions \cup {nextId}
  /\ heap' = [heap EXCEPT ![nextId] =
                [modelPath |-> ModelPath(nextId), listPath |-> ListPath(nextId),
                 names |-> <<>>,
                 cleanup |-> {ModelPath(nextId), ListPath(nextId)}]]
  /\ nextId' = nextId + 1
  /\ fs' = fs \cup {ModelPath(nextId), ListPath(nextId)}
  /\ reqs' = [reqs EXCEPT ![r] =
                [Idle EXCEPT !.kind = "upload", !.pc = "extract",
                             !.sid = nextId, !.list = file]]
  /\ last' = Step("upload.begin", nextId)
  /\ UNCHANGED <<faulted, calls, zips, destroyed, dlDone, prev>>

\* extractNamesFromFile returned: s.names = names, 200 with the first 50
\* names and their count.
UploadEnd(r) ==
  LET got == ExtractNamesFromFile(reqs[r].list) IN
  /\ reqs[r].kind = "upload" /\ reqs[r].pc = "extract"
  /\ ~got.threw
  /\ heap' = [heap EXCEPT ![reqs[r].sid].names = got.names]
  /\ reqs' = [reqs EXCEPT ![r] = Idle]
  /\ last' = [Resp("upload.ok", reqs[r].sid, 200) EXCEPT
                !.total = Len(got.names), !.list = reqs[r].list,
                !.names = SubSeq(got.names, 1, Min(maxBatch, Len(got.names)))]
  /\ UNCHANGED <<faulted, calls, sessions, nextId, fs, zips, destroyed,
                 dlDone, prev>>

\* extractNamesFromFile threw: the catch answers 500; nothing is cleaned up
\* and the session stays in the Map.
UploadFail(r) ==
  /\ reqs[r].kind = "upload" /\ reqs[r].pc = "extract"
  /\ ExtractNamesFromFile(reqs[r].list).threw
  /\ reqs' = [reqs EXCEPT ![r] = Idle]
  /\ faulted' = TRUE
  /\ last' = [Resp("upload.fail", reqs[r].sid, 500) EXCEPT
                !.list = reqs[r].list]
  /\ UNCHANGED <<calls, sessions, heap, nextId, fs, zips, destroyed, dlDone,
                 prev>>

\* ---------------------------------------------------------------- /api/test
\* The two 400 answers of /api/test and /api/generate: sessions.get found
\* nothing ('Invalid session'), or the session has no template or no names
\* ('Missing model or names').
Refused(sid) == IF sid \in sessions THEN ~Usable(heap[sid]) ELSE TRUE

\* the history of every session but sid is kept; sid's is reset
Touch(sid) == [prev EXCEPT ![sid] = Dirty]

\* Unknown session, or no template / no names: 400 before any work.
TestReject(sid) ==
  /\ Up
  /\ Refused(sid)
  /\ last' = Resp("test.reject", sid, 400)
  /\ UNCHANGED <<faulted, calls, sessions, heap, nextId, fs, zips, reqs,
                 destroyed, dlDone, prev>>

\* The directory work/<sid> is made and composeImageWithText is awaited.
TestBegin(r, sid) ==
  /\ Up
  /\ Free(r)
  /\ calls < MaxCalls
  /\ calls' = calls + 1
  /\ ~Refused(sid)
  /\ fs' = MkdirP(fs, WorkDir(sid))
  /\ reqs' = Started(r, sid, "test",
                [Idle EXCEPT !.kind = "test", !.pc = "render", !.sid = sid])
  /\ last' = Step("test.begin", sid)
  /\ prev' = Touch(sid)
  /\ UNCHANGED <<faulted, sessions, heap, nextId, zips, destroyed, dlDone>>

\* The render succeeded (template readable, directory still there):
\* test.png is work/<sid> is registered, 200.
TestDone(r) ==
  LET sid == reqs[r].sid IN
  /\ reqs[r].kind = "test" /\ reqs[r].pc = "render"
  /\ heap[sid].modelPath \in fs /\ WorkDir(sid) \in fs
  /\ fs' = fs \cup {TestPath(sid)}
  /\ heap' = [heap EXCEPT ![sid].cleanup = @ \cup {WorkDir(sid)}]
  /\ reqs' = [reqs EXCEPT ![r] = Idle]
  /\ last' = Resp("test.ok", sid, 200)
  /\ prev' = Touch(sid)
  /\ UNCHANGED <<faulted, calls, sessions, nextId, zips, destroyed, dlDone>>

\* The render or the write threw: 500, work/<sid> is not registered.
TestFail(r) ==
  LET sid == reqs[r].sid IN
  /\ reqs[r].kind = "test" /\ reqs[r].pc = "render"
  /\ reqs' = [reqs EXCEPT ![r] = Idle]
  /\ faulted' = TRUE
  /\ last' = Resp("test.fail", sid, 500)
  /\ prev' = Touch(sid)
  /\ UNCHANGED <<calls, sessions, heap, nextId, fs, zips, destroyed, dlDone>>

\* ------------------------------------------------------------ /api/generate
\* ZipSource of the session's whole working directory: the preview and
\* the previous archive become entries too
ZipSourceWorkDir(files, sid) ==
  OutFiles(files, sid)
    \cup (IF TestPath(sid) \in files THEN {<<"test.png">>} ELSE {})
    \cup (IF ZipPath(sid) \in files THEN {<<"invitations.zip">>} ELSE {})

\* ZipSource of the PNG files only
ZipSourcePngOnly(files, sid) ==
  {f \in OutFiles(files, sid) : TmpPngName(f) = f}

\* archive.directory(outDir, false): the entries of the archive are the
\* files of work/<sid>/all, without a directory prefix.
ZipSource(files, sid) == OutFiles(files, sid)

\* The loop test `idx < endExclusive` after the handler `rec` has set idx:
\* either the next name is composed, or the loop is left and the archive is
\* started in the same turn (createWriteStream makes or truncates the zip
\* file, archiver reads the output directory).  work/<sid> exists whenever
\* this is reached: it has just been made or written into.
LoopOrZip(rec, files, zs) ==
  IF rec.idx < rec.endx
  THEN [rec |-> [rec EXCEPT !.pc = "compose"], fs |-> files, zips |-> zs]
  ELSE [rec |-> [rec EXCEPT !.pc = "zip",
                            !.entries = ZipSource(files, rec.sid)],
        fs |-> files \cup {ZipPath(rec.sid)},
        zips |-> [zs EXCEPT ![rec.sid] =
                    [state |-> "writing", entries |-> {}]]]

\* Unknown session, or no template / no names: 400 before any work.
GenerateReject(sid) ==
  /\ Up
  /\ Refused(sid)
  /\ last' = Resp("generate.reject", sid, 400)
  /\ UNCHANGED <<faulted, calls, sessions, heap, nextId, fs, zips, reqs,
                 destroyed, dlDone, prev>>

\* The synchronous head of the handler: the output directory is made, the
\* window is computed and the first name's render is awaited (or, for an
\* empty window, the archive is started).
GenerateBegin(r, sid, offset, limit, format) ==
  /\ Up
  /\ Free(r)
  /\ calls < MaxCalls
  /\ calls' = calls + 1
  /\ ~Refused(sid)
  /\ LET total == Len(heap[sid].names)
         start == Start(offset)
         endx == EndExclusive(BatchSize(Requested(limit)), start, total)
         solo == OtherGenerates(r, sid) = {}
         rerun == /\ Others(r, sid) = {}
                  /\ prev[sid] = [prev[sid] EXCEPT !.st = "fresh",
                                    !.offset = offset, !.limit = limit,
                                    !.format = format]
         rec == [Idle EXCEPT !.kind = "generate", !.sid = sid,
                   !.offset = offset, !.limit = limit, !.format = format,
                   !.start = start, !.endx = endx, !.idx = start,
                   !.ext = Ext(format), !.solo = solo,
                   !.alone = Others(r, sid) = {}]
         nxt == LoopOrZip(rec, MkdirP(fs, OutDir(sid)), zips)
     IN /\ reqs' = Started(r, sid, "generate", nxt.rec)
        /\ fs' = nxt.fs
        /\ zips' = nxt.zips
        /\ prev' = IF rerun THEN [prev EXCEPT ![sid].st = "rerun"]
                   ELSE Touch(sid)
        /\ last' = Step("generate.begin", sid)
  /\ UNCHANGED <<faulted, sessions, heap, nextId, destroyed, dlDone>>

\* the file name of the artifact the handler is working on
CurrentFile(rec) == Filename(rec.idx, heap[rec.sid].names[rec.idx + 1], rec.ext)

\* what `last` says about the artifact the handler has just finished
Artifact(rec) ==
  [NoResp EXCEPT
     !.op = "generate.artifact", !.sid = rec.sid, !.start = rec.start,
     !.k = rec.idx - rec.start, !.file = CurrentFile(rec)]

\* composeImageWithText resolved: it has read the template and written its
\* PNG to the final path (png) or to the temporary path (jpg).
ComposeDone(r) ==
  LET rec == reqs[r]
      sid == rec.sid
      f == CurrentFile(rec)
      target == IF rec.ext = "png" THEN f ELSE TmpPngName(f)
      files == fs \cup {OutPath(sid, target)}
      nxt == IF rec.ext = "png"
             THEN LoopOrZip([rec EXCEPT !.idx = @ + 1, !.made = @ \cup {f}],
                            files, zips)
             ELSE [rec |-> [rec EXCEPT !.pc = "convert"], fs |-> files,
                   zips |-> zips]
  IN /\ rec.kind = "generate" /\ rec.pc = "compose"
     /\ heap[sid].modelPath \in fs /\ OutDir(sid) \in fs
     /\ reqs' = [reqs EXCEPT ![r] = nxt.rec]
     /\ fs' = nxt.fs
     /\ zips' = nxt.zips
     /\ last' = IF rec.ext = "png" THEN Artifact(rec)
                ELSE Step("generate.compose", sid)
     /\ UNCHANGED <<faulted, calls, sessions, heap, nextId, destroyed,
                    dlDone, prev>>

\* sharp(tmpPng).jpeg({ quality: 90 }).toBuffer() resolved: it has read the
\* temporary PNG; the JPEG write is awaited.
ConvertDone(r) ==
  LET rec == reqs[r]
      sid == rec.sid
  IN /\ rec.kind = "generate" /\ rec.pc = "convert"
     /\ OutPath(sid, TmpPngName(CurrentFile(rec))) \in fs
     /\ reqs' = [reqs EXCEPT ![r].pc = "writejpg"]
     /\ last' = Step("generate.convert", sid)
     /\ UNCHANGED <<faulted, calls, sessions, heap, nextId, fs, zips,
                    destroyed, dlDone, prev>>

\* The JPEG write resolved and fs.unlinkSync(tmpPng) found the temporary
\* PNG: the loop goes on.
WriteJpgDone(r) ==
  LET rec == reqs[r]
      sid == rec.sid
      f == CurrentFile(rec)
      tmp == OutPath(sid, TmpPngName(f))
      nxt == LoopOrZip([rec EXCEPT !.idx = @ + 1, !.made = @ \cup {f}],
                       (fs \cup {OutPath(sid, f)}) \ {tmp}, zips)
  IN /\ rec.kind = "generate" /\ rec.pc = "writejpg"
     /\ OutDir(sid) \in fs /\ tmp \in fs
     /\ reqs' = [reqs EXCEPT ![r] = nxt.rec]
     /\ fs' = nxt.fs
     /\ zips' = nxt.zips
     /\ last' = Artifact(rec)
     /\ UNCHANGED <<faulted, calls, sessions, heap, nextId, destroyed,
                    dlDone, prev>>

\* The JPEG write resolved but the temporary PNG is gone (another handler
\* unlinked it): unlinkSync throws, 500; the JPEG stays.
UnlinkThrow(r) ==
  LET rec == reqs[r]
      sid == rec.sid
      f == CurrentFile(rec)
  IN /\ rec.kind = "generate" /\ rec.pc = "writejpg"
     /\ OutDir(sid) \in fs /\ OutPath(sid, TmpPngName(f)) \notin fs
     /\ reqs' = [reqs EXCEPT ![r] = Idle]
     /\ fs' = fs \cup {OutPath(sid, f)}
     /\ faulted' = TRUE
     /\ last' = Resp("generate.fail", sid, 500)
     /\ prev' = Touch(sid)
     /\ UNCHANGED <<calls, sessions, heap, nextId, zips, destroyed, dlDone>>

\* An awaited render, conversion or write rejected (unreadable template,
\* missing directory or file, rendering error): the catch answers 500 and
\* leaves on disk what the call has written so far.
GenerateFail(r) ==
  LET rec == reqs[r] IN
  /\ rec.kind = "generate" /\ rec.pc \in {"compose", "convert", "writejpg"}
  /\ reqs' = [reqs EXCEPT ![r] = Idle]
  /\ faulted' = TRUE
  /\ last' = Resp("generate.fail", rec.sid, 500)
  /\ prev' = Touch(rec.sid)
  /\ UNCHANGED <<calls, sessions, heap, nextId, fs, zips, destroyed, dlDone>>

\* output 'close': the promise resolves, work/<sid> is registered, 200 with
\* processed = endExclusive - start.
ZipClose(r) ==
  LET rec == reqs[r]
      sid == rec.sid
      repeat == prev[sid].st = "rerun"
  IN /\ rec.kind = "generate" /\ rec.pc = "zip"
     /\ heap' = [heap EXCEPT ![sid].cleanup = @ \cup {WorkDir(sid)}]
     /\ zips' = IF ZipPath(sid) \in fs
                THEN [zips EXCEPT ![sid] =
                        [state |-> "closed", entries |-> rec.entries]]
                ELSE zips
     /\ reqs' = [reqs EXCEPT ![r] = Idle]
     /\ last' = [Resp("generate.ok", sid, 200) EXCEPT
                   !.processed = rec.endx - rec.start, !.start = rec.start,
                   !.total = Len(heap[sid].names), !.offset = rec.offset,
                   !.limit = rec.limit, !.window = rec.made,
                   !.entries = rec.entries, !.solo = rec.solo,
                   !.repeat = repeat,
                   !.prevEntries = IF repeat THEN prev[sid].entries ELSE {}]
     /\ prev' = [prev EXCEPT ![sid] =
                   IF rec.alone
                   THEN [st |-> "fresh", offset |-> rec.offset,
                         limit |-> rec.limit, format |-> rec.format,
                         entries |-> rec.entries]
                   ELSE Dirty]
     /\ UNCHANGED <<faulted, calls, sessions, nextId, fs, destroyed, dlDone>>

\* archive 'error': the promise rejects, 500; the zip file stays as it is.
ZipFail(r) ==
  LET rec == reqs[r]
      sid == rec.sid
  IN /\ rec.kind = "generate" /\ rec.pc = "zip"
     /\ zips' = IF ZipPath(sid) \in fs
                THEN [zips EXCEPT ![sid].state = "broken"]
                ELSE zips
     /\ reqs' = [reqs EXCEPT ![r] = Idle]
     /\ faulted' = TRUE
     /\ last' = Resp("generate.fail", sid, 500)
     /\ prev' = Touch(sid)
     /\ UNCHANGED <<calls, sessions, heap, nextId, fs, destroyed, dlDone>>

\* What an 'error' event of the output stream leads to.  The handler puts
\* no 'error' listener on `output`, and pipe() withdraws its own when the
\* event comes, so what follows is decided by the stream implementation the
\* archiver is built on:
\*   "uncaught" - the error is emitted again without a listener: an uncaught
\*                exception ends the process;
\*   "closed"   - the error is dropped and the destroyed stream emits its
\*                'close': the promise resolves as for a complete archive.
OutputErrorOutcomes == {"uncaught", "closed"}

\* output 'error' during the archive step (disk full, I/O error).
ZipOutputError(r, outcome) ==
  LET rec == reqs[r]
      sid == rec.sid
  IN /\ rec.kind = "generate" /\ rec.pc = "zip"
     /\ ZipPath(sid) \in fs
     /\ zips' = [zips EXCEPT ![sid].state = "broken"]
     /\ faulted' = TRUE
     /\ prev' = Touch(sid)
     /\ IF outcome = "uncaught"
        THEN /\ reqs' = [q \in Slots |-> Idle]
             /\ sessions' = {}
             /\ last' = Resp("crash", sid, 0)
             /\ UNCHANGED heap
        ELSE /\ reqs' = [reqs EXCEPT ![r] = Idle]
             /\ heap' = [heap EXCEPT ![sid].cleanup = @ \cup {WorkDir(sid)}]
             /\ last' = [Resp("generate.ok.broken", sid, 200) EXCEPT
                           !.processed = rec.endx - rec.start,
                           !.start = rec.start,
                           !.total = Len(heap[sid].names)]
             /\ UNCHANGED sessions
     /\ UNCHANGED <<calls, nextId, fs, destroyed, dlDone>>

\* ------------------------------------------------------- /api/download/:sid
DownloadInvalid(sid) ==
  /\ Up
  /\ sid \notin sessions
  /\ last' = Resp("download.invalid", sid, 400)
  /\ UNCHANGED <<faulted, calls, sessions, heap, nextId, fs, zips, reqs,
                 destroyed, dlDone, prev>>

DownloadNotFound(sid) ==
  /\ Up
  /\ sid \in sessions
  /\ ZipPath(sid) \notin fs
  /\ last' = Resp("download.notfound", sid, 404)
  /\ UNCHANGED <<faulted, calls, sessions, heap, nextId, fs, zips, reqs,
                 destroyed, dlDone, prev>>

\* The archive exists: res.download starts the transfer.
DownloadBegin(r, sid) ==
  /\ Up
  /\ Free(r)
  /\ calls < MaxCalls
  /\ calls' = calls + 1
  /\ sid \in sessions
  /\ ZipPath(sid) \in fs
  /\ reqs' = Started(r, sid, "download",
                [Idle EXCEPT !.kind = "download", !.pc = "send", !.sid = sid])
  /\ last' = Step("download.begin", sid)
  /\ prev' = Touch(sid)
  /\ UNCHANGED <<faulted, sessions, heap, nextId, fs, zips, destroyed,
                 dlDone>>

\* The callback of res.download, after a complete or a failed transfer:
\* cleanupSession(sid).
DownloadEnd(r, ok) ==
  LET sid == reqs[r].sid
      files == CleanupFiles(fs, sessions, heap, sid)
  IN /\ reqs[r].kind = "download" /\ reqs[r].pc = "send"
     /\ fs' = files
     /\ sessions' = CleanupStore(sessions, sid)
     /\ zips' = IF ZipPath(sid) \in files THEN zips
                ELSE [zips EXCEPT ![sid] = NoZip]
     /\ destroyed' = [destroyed EXCEPT ![sid] =
                        IF sessions' # sessions THEN Min(@ + 1, 2) ELSE @]
     /\ dlDone' = dlDone \cup {sid}
     /\ reqs' = [reqs EXCEPT ![r] = Idle]
     /\ last' = [Resp("download.end", sid, IF ok THEN 200 ELSE 0) EXCEPT
                   !.found = sid \in sessions]
     /\ prev' = Touch(sid)
     /\ UNCHANGED <<faulted, calls, heap, nextId>>

\* ------------------------------------------------------- the specification
\* what the requests of the interleaved specification carry
Windows == {<<JsUndef, JsUndef>>, <<JsUndef, JsNum(1)>>, <<JsNum(1), JsNum(1)>>}
Formats == {"png", "jpg"}
Targets == SIds \cup {BogusId}

Next ==
  \/ UploadThrow
  \/ \E m, l \in BOOLEAN : UploadReject(m, l)
  \/ \E r \in Slots, file \in SpecLists : UploadBegin(r, file)
  \/ \E r \in Slots : UploadEnd(r)
  \/ \E r \in Slots : UploadFail(r)
  \/ \E sid \in Targets : TestReject(sid)
  \/ \E r \in Slots, sid \in Targets : TestBegin(r, sid)
  \/ \E r \in Slots : TestDone(r)
  \/ \E r \in Slots : TestFail(r)
  \/ \E sid \in Targets : GenerateReject(sid)
  \/ \E r \in Slots, sid \in Targets, w \in Windows, f \in Formats :
        GenerateBegin(r, sid, w[1], w[2], f)
  \/ \E r \in Slots : ComposeDone(r)
  \/ \E r \in Slots : ConvertDone(r)
  \/ \E r \in Slots : WriteJpgDone(r)
  \/ \E r \in Slots : UnlinkThrow(r)
  \/ \E r \in Slots : GenerateFail(r)
  \/ \E r \in Slots : ZipClose(r)
  \/ \E r \in Slots : ZipFail(r)
  \/ \E sid \in Targets : DownloadInvalid(sid)
  \/ \E sid \in Targets : DownloadNotFound(sid)
  \/ \E r \in Slots, sid \in Targets : DownloadBegin(r, sid)
  \/ \E r \in Slots, ok \in BOOLEAN : DownloadEnd(r, ok)
  \/ \E r \in Slots, o \in OutputErrorOutcomes : ZipOutputError(r, o)

Spec == Init /\ [][Next]_vars

\* The steps the event loop owes the handler in flight in slot r: every
\* pending promise settles and every transfer ends.
Continue(r) ==
  \/ UploadEnd(r) \/ UploadFail(r)
  \/ TestDone(r) \/ TestFail(r)
  \/ ComposeDone(r) \/ ConvertDone(r) \/ WriteJpgDone(r) \/ UnlinkThrow(r)
  \/ GenerateFail(r)
  \/ ZipClose(r) \/ ZipFail(r)
  \/ \E ok \in BOOLEAN : DownloadEnd(r, ok)

\* A client that keeps asking for the download of session sid.
AskDownload(sid) ==
  \/ DownloadNotFound(sid)
  \/ \E r \in Slots : DownloadBegin(r, sid)

\* Spec with the handlers in flight running to their end and with clients
\* that do not give up asking for the download of a session.
SpecLive ==
  /\ Spec
  /\ \A r \in Slots : WF_vars(Continue(r))
  /\ \A sid \in SIds : WF_vars(AskDownload(sid))

\* ------------------------------------------- one generate call, any window
\* A session as an upload of a T-name list leaves it, and one generate call
\* on it with an offset and a limit of every kind the handler tells apart.
BatchTotals == 0..5 \cup {MaxTotal - 2, MaxTotal - 1, MaxTotal}
BatchOffsets ==
  {JsUndef, JsNull, JsText, JsNum(0 - 1), JsNum(0), JsNum(1), JsNumStr(2),
   JsNum(maxBatch), JsNum(MaxTotal), JsNum(MaxTotal + 1)}
BatchLimits ==
  {JsUndef, JsNull, JsText, JsNum(0 - 1), JsNum(0), JsNum(1), JsNumStr(10),
   JsNum(maxBatch), JsNum(maxBatch + 1), JsNum(MaxTotal + 8)}

InitBatch ==
  /\ sessions = {1}
  /\ \E total \in BatchTotals :
       heap = [i \in SIds |->
                 IF i = 1
                 THEN [modelPath |-> ModelPath(1), listPath |-> ListPath(1),
                       names |-> NameList(total),
                       cleanup |-> {ModelPath(1), ListPath(1)}]
                 ELSE BlankSession]
  /\ nextId = 2
  /\ fs = {ModelPath(1), ListPath(1)}
  /\ zips = [i \in SIds |-> NoZip]
  /\ reqs = [r \in Slots |-> Idle]
  /\ last = NoResp
  /\ destroyed = [i \in SIds |-> 0]
  /\ dlDone = {}
  /\ calls = 0
  /\ faulted = FALSE
  /\ prev = [i \in SIds |-> Dirty]

NextBatch ==
  \/ \E sid \in {1} : GenerateReject(sid)
  \/ \E r \in Slots, o \in BatchOffsets, l \in BatchLimits, f \in Formats :
       calls = 0 /\ GenerateBegin(r, 1, o, l, f)
  \/ \E r \in Slots : ComposeDone(r)
  \/ \E r \in Slots : ConvertDone(r)
  \/ \E r \in Slots : WriteJpgDone(r)
  \/ \E r \in Slots : ZipClose(r)

SpecBatch == InitBatch /\ [][NextBatch]_vars

\* -------------------------------------------- one upload, any list file
\* Entries a list file is written from: plain, padded with blanks, empty,
\* blank, the header word in three spellings (one with a blank inside), a
\* word that only begins with it, one ending in a carriage return, and one
\* with a blank inside.
TokenPool ==
  {<<"A", "l">>, <<" ", "B", "o", " ">>, <<>>, <<" ">>,
   <<"L", "i", "s", "t", "e">>, <<"l", "i", "s", "t", "e", "s">>,
   <<"l", "i", " ", "s", "t", "e">>, <<"B", "\r">>, <<"a", " ", "b">>}

Separators == {<<"\n">>, <<"\r", "\n">>, <<";">>, <<",">>}

Exts == {".csv", ".xlsx", ".xls", ".docx", ".pdf", ".txt"}

\* The first upload, of a list file of any kind, readable or not, parsable
\* or not, with fewer than MaxTokens entries, or of a readable .csv file
\* with MaxTokens entries.
UploadAnyList(r) ==
  /\ nextId = 1
  /\ \E e \in Exts, rd \in BOOLEAN, ps \in BOOLEAN, n \in 0..MaxTokens :
       /\ n = MaxTokens => (e = ".csv" /\ rd /\ ps)
       /\ \E ts \in [1..n -> TokenPool], sp \in [1..(n - 1) -> Separators] :
            UploadBegin(r, [ext |-> e, readable |-> rd, parses |-> ps,
                            tokens |-> ts, seps |-> sp])

NextExtract ==
  \/ \E r \in Slots : UploadAnyList(r)
  \/ \E r \in Slots : UploadEnd(r)
  \/ \E r \in Slots : UploadFail(r)

SpecExtract == Init /\ [][NextExtract]_vars

\* ----------------------------------------------------------------- claims
\* names the loop of the generate handler in slot r has processed
Processed(r) == reqs[r].idx - reqs[r].start
Generating(r) == reqs[r].kind = "generate"
\* the limit converts to a finite number other than 0
LimitGiven(limit) == limit.t \in {"num", "numstr"} /\ limit.n # 0

\* C1 (as claimed): whatever offset and limit a generate call is given, the
\* names it processes are at most 50 and at most the session's total.
C1_CappedForEveryLimit ==
  \A r \in Slots : Generating(r) =>
    /\ Processed(r) <= maxBatch
    /\ Processed(r) <= Len(heap[reqs[r].sid].names)

\* C1 (amended): the names one generate call processes are at most the
\* session's total, and at most 50 whenever its limit is a finite number
\* other than 0; without such a limit the call processes every name from
\* the offset on.
C1_CappedWhenLimitGiven ==
  \A r \in Slots : Generating(r) =>
    /\ Processed(r) <= Len(heap[reqs[r].sid].names)
    /\ LimitGiven(reqs[r].limit) => Processed(r) <= maxBatch
    /\ (~LimitGiven(reqs[r].limit) /\ reqs[r].pc = "zip") =>
         Processed(r) = Max(0, Len(heap[reqs[r].sid].names) - reqs[r].start)

\* C1 witness: a call asking for more than 50 of more than 50 names has
\* left its loop after exactly 50.
C1_Witness ==
  \E r \in Slots :
    /\ Generating(r) /\ reqs[r].pc = "zip"
    /\ reqs[r].limit.t = "num" /\ reqs[r].limit.n > maxBatch
    /\ Len(heap[reqs[r].sid].names) - reqs[r].start > maxBatch
    /\ Processed(r) = maxBatch

\* C2: for a generate call with offset o >= 0 and limit l >= 1 on T names,
\* the reported 'processed' count is at most min(l, 50, T - o), and it is 0
\* whenever o >= T.
C2_ReportedWindowLength ==
  (/\ last.op = "generate.ok"
   /\ last.offset.t = "num" /\ last.offset.n >= 0
   /\ last.limit.t = "num" /\ last.limit.n >= 1) =>
    /\ last.processed <= Min(last.limit.n, Min(maxBatch, last.total - last.offset.n))
    /\ last.offset.n >= last.total => last.processed = 0

\* the characters of f before its first "-"
IndexField(f) ==
  SubSeq(f, 1, (CHOOSE i \in 1..Len(f) :
                  f[i] = "-" /\ \A j \in 1..(i - 1) : f[j] # "-") - 1)

\* the number a sequence of decimal digits spells
RECURSIVE DecVal(_)
DecVal(s) ==
  IF s = <<>> THEN 0
  ELSE 10 * DecVal(SubSeq(s, 1, Len(s) - 1))
         + (CHOOSE d \in 0..9 : Digits[d + 1] = s[Len(s)])

\* C6: the artifact of the k-th name a generate call processes (k from 0)
\* carries the number start + k + 1, the name's 1-based position in the
\* whole list, written with 3 digits.
C6_AbsoluteNumbering ==
  last.op = "generate.artifact" =>
    /\ DecVal(IndexField(last.file)) = last.start + last.k + 1
    /\ Len(IndexField(last.file)) = padWidth

\* C6 witness: a batch starting at offset 50 has numbered its first file 051.
C6_Witness ==
  /\ last.op = "generate.artifact"
  /\ last.start = 50 /\ last.k = 0
  /\ SubSeq(last.file, 1, 4) = <<"0", "5", "1", "-">>

\* C8: the artifacts one generate call has made so far all have different
\* file names (as many names as names processed).
C8_UniqueFilenames ==
  \A r \in Slots : Generating(r) => Cardinality(reqs[r].made) = Processed(r)

\* C8 witness: a call has processed two equal names and two names that are
\* equal after sanitisation only.
C8_Witness ==
  \E r \in Slots :
    /\ Generating(r) /\ Processed(r) >= 4
    /\ LET names == heap[reqs[r].sid].names
           win == (reqs[r].start + 1)..reqs[r].idx
       IN /\ \E i, j \in win : i # j /\ names[i] = names[j]
          /\ \E i, j \in win : /\ names[i] # names[j]
                               /\ Sanitize(names[i]) = Sanitize(names[j])

\* every file name a generate call can give an artifact of session sid
ArtifactNames(sid) ==
  {Filename(i - 1, heap[sid].names[i], e) :
     i \in 1..Len(heap[sid].names), e \in {"png", "jpg"}}

C7_RepeatSameArchive ==
  (last.op = "generate.ok" /\ last.repeat) =>
    /\ last.entries = last.prevEntries
    /\ Cardinality(last.entries) = Cardinality(last.prevEntries)

\* C7 witness: a repeated jpg call has completed with a non-empty archive.
C7_Witness ==
  /\ last.op = "generate.ok" /\ last.repeat
  /\ last.entries # {}
  /\ \E f \in last.entries : TmpPngName(f) # f

\* C4: once a download callback has run for a session, the session is not
\* in the store and its entry has been deleted exactly once; no entry is
\* ever deleted twice.
C4_DestroyedOnce ==
  /\ \A sid \in dlDone : sid \notin sessions /\ destroyed[sid] = 1
  /\ \A sid \in SIds : destroyed[sid] <= 1

\* C4 witness: the second of two overlapping downloads has finished after
\* the first one destroyed the session.
C4_Witness ==
  /\ last.op = "download.end" /\ ~last.found
  /\ last.sid \in dlDone /\ destroyed[last.sid] = 1

Unfit(sid) ==
  \/ sid \notin sessions
  \/ heap[sid].modelPath = Null
  \/ Len(heap[sid].names) = 0

\* C9: no preview or generate handler starts work on an unknown session or
\* one without template or names; such a call is answered 400 in a step
\* that leaves the file system, the store, every session object and the
\* handlers in flight unchanged.
C9_RefusedWithoutWork ==
  [][/\ \A r \in Slots :
          (reqs[r].pc = "idle" /\ reqs'[r].kind \in {"test", "generate"}) =>
            ~Unfit(reqs'[r].sid)
     /\ (last'.op \in {"test.reject", "generate.reject"} /\ last' # last) =>
          /\ Unfit(last'.sid)
          /\ last'.status = 400
          /\ fs' = fs /\ sessions' = sessions /\ heap' = heap /\ reqs' = reqs
    ]_vars

\* C9 witness: a generate call on a session that has its template but no
\* names has been refused.
C9_Witness ==
  /\ last.op = "generate.reject" /\ last.status = 400
  /\ last.sid \in sessions
  /\ heap[last.sid].modelPath # Null
  /\ heap[last.sid].names = <<>>

\* C10: an upload lacking the template or the list is answered 400 and
\* the store holds no session that request created.
C10_RejectedUploadLeavesNoSession ==
  last.op = "upload.reject" =>
    /\ last.status = 400
    /\ last.sid \notin sessions

\* C11: an upload whose list file cannot be read is never answered with a
\* name list: the extraction throws for every kind of file (csv, xlsx,
\* xls, docx, pdf, other) instead of returning an empty list.
C11_UnreadableIsFatal ==
  last.op = "upload.ok" => last.list.readable

\* t without its leading and trailing white space
TrimmedOf(t) ==
  LET ink == {k \in 1..Len(t) : t[k] \notin WhiteSpace} IN
  IF ink = {} THEN <<>>
  ELSE SubSeq(t, CHOOSE i \in ink : \A k \in ink : i <= k,
                 CHOOSE j \in ink : \A k \in ink : j >= k)

\* t and u are equal up to the case of their letters
SameLetters(t, u) ==
  Len(t) = Len(u) /\ \A k \in 1..Len(t) : LowerChar(t[k]) = LowerChar(u[k])

\* the answer to an upload of a readable list file parsed as text
ParsedAsText ==
  /\ last.op = "upload.ok"
  /\ last.list.ext \notin {".xlsx", ".xls"}
  /\ last.list.readable /\ last.list.parses

\* the entries of the uploaded file, trimmed, the empty ones left out
TrimmedTokens ==
  SelectSeq([i \in 1..Len(last.list.tokens) |-> TrimmedOf(last.list.tokens[i])],
            LAMBDA t : t # <<>>)

\* C12 (as claimed): the names parsed from a delimited text are exactly its
\* trimmed non-empty tokens that do not equal 'liste' up to case, in their
\* order, duplicates kept.
C12_TokensButHeader ==
  ParsedAsText =>
    last.names = SelectSeq(TrimmedTokens, LAMBDA t : ~SameLetters(t, Liste))

\* C12 (amended): the names parsed from a delimited text are exactly its
\* trimmed non-empty tokens that do not equal 'liste' up to case once the
\* white space inside them is removed, in their order, duplicates kept.
C12_TokensButSpacedHeader ==
  ParsedAsText =>
    last.names =
      SelectSeq(TrimmedTokens,
                LAMBDA t : ~SameLetters(SelectSeq(t, LAMBDA c : c \notin WhiteSpace),
                                        Liste))

\* C12 witness: a padded name, the header and a second name, separated by
\* different separators, gave the two names in that order.
C12_Witness ==
  /\ ParsedAsText
  /\ last.list.tokens =
       << <<" ", "B", "o", " ">>, <<"L", "i", "s", "t", "e">>, <<"A", "l">> >>
  /\ last.list.seps[1] # last.list.seps[2]
  /\ last.names = << <<"B", "o">>, <<"A", "l">> >>

\* the generate handler in slot r is in its artifact loop or archive step
InLoopOrZip(r) ==
  Generating(r) /\ reqs[r].pc \in {"compose", "convert", "writejpg", "zip"}

\* C13: no two generate calls for one session are ever in their artifact
\* loop or archive step together.
C13_OneGeneratePerSession ==
  \A r, q \in Slots :
    (r # q /\ InLoopOrZip(r) /\ InLoopOrZip(q)) => reqs[r].sid # reqs[q].sid

\* the paths on disk at or below the working directory of session sid
WorkFiles(files, sid) == {q \in files : IsUnder(WorkDir(sid), q)}

\* path q is a registered path of session object s, or lies below one
Covered(s, q) == \E p \in s.cleanup : p # Null /\ IsUnder(p, q)

\* the handler in slot r ends in this step
Ends(r) == reqs[r].pc # "idle" /\ reqs'[r].pc = "idle"

\* C14: when a generate call that runs alone on its session ends with an
\* error, the session is still in the store and every file and directory
\* under work/<sid> is covered by a path of the session's cleanup registry.
C14_FailedCallRegistered ==
  [][\A r \in Slots :
       (Generating(r) /\ reqs[r].alone /\ Ends(r)
          /\ last'.op = "generate.fail") =>
         /\ reqs[r].sid \in sessions'
         /\ \A q \in WorkFiles(fs', reqs[r].sid) :
              Covered(heap'[reqs[r].sid], q)]_vars

\* the temporary PNG of the name at 0-based position i of session sid
TmpPng(sid, i) ==
  OutPath(sid, TmpPngName(Filename(i, heap[sid].names[i + 1], "jpg")))

\* C15: when a jpg generate call that runs alone on its session ends, with
\* success or with an error, the output directory holds no temporary PNG
\* of a name the call has worked on.
C15_NoTemporaryPngLeft ==
  [][\A r \in Slots :
       (Generating(r) /\ reqs[r].ext = "jpg" /\ reqs[r].alone /\ Ends(r)) =>
         \A i \in reqs[r].start..Min(reqs[r].idx, reqs[r].endx - 1) :
           TmpPng(reqs[r].sid, i) \notin fs']_vars

\* C18: no download starts to transfer the archive of a session while a
\* generate call for that session is still writing that archive.
C18_NoDownloadWhileWriting ==
  [][\A r \in Slots :
       (reqs[r].pc = "idle" /\ reqs'[r].kind = "download") =>
         /\ zips[reqs'[r].sid].state # "writing"
         /\ \A q \in Slots :
              ~(Generating(q) /\ reqs[q].pc = "zip"
                  /\ reqs[q].sid = reqs'[r].sid)]_vars

\* the paths on disk that belong to session sid
SessionFiles(files, sid) ==
  WorkFiles(files, sid) \cup ({ModelPath(sid), ListPath(sid)} \cap files)

\* no handler is in flight for session sid
Quiet(sid) == \A r \in Slots : reqs[r].pc = "idle" \/ reqs[r].sid # sid

\* C19: once a session has been destroyed and no handler is in flight for
\* it, none of its files or directories is on the file system (stated for
\* the runs in which no handler has failed).
C19_NothingLeftAfterDestroy ==
  \A sid \in SIds :
    (destroyed[sid] > 0 /\ Quiet(sid) /\ ~faulted) =>
      SessionFiles(fs, sid) = {}

\* C16: the archive step of a generate call ends either with a success
\* answer for an archive whose output stream has closed complete, or with
\* an error answer; an error of the compressor or of the output stream
\* always gives the error answer.
C16_ArchiveErrorAnswered ==
  [][\A r \in Slots :
       (Generating(r) /\ reqs[r].pc = "zip" /\ Ends(r)) =>
         /\ last'.sid = reqs[r].sid
         /\ last'.status \in {200, 500}
         /\ last'.status = 200 =>
              (ZipPath(reqs[r].sid) \in fs =>
                 zips'[reqs[r].sid].state = "closed")]_vars

\* the upload that created session sid has just ended with its extraction
\* having thrown
UploadFailed(sid) == last.op = "upload.fail" /\ last.sid = sid

\* C17: an upload registers the template and the list before it starts
\* the extraction, and once an extraction has failed the two uploaded files
\* are eventually removed from the file system.
C17_FailedUploadCleaned ==
  /\ [](\A r \in Slots :
          (reqs[r].kind = "upload" /\ reqs[r].pc = "extract") =>
            {ModelPath(reqs[r].sid), ListPath(reqs[r].sid)}
              \subseteq heap[reqs[r].sid].cleanup)
  /\ \A sid \in SIds :
       UploadFailed(sid) ~>
         (ModelPath(sid) \notin fs /\ ListPath(sid) \notin fs)

====
